---- MODULE Spec2Model ----
(***************************************************************************)
(* Model of lineup/model/adjusted.py (class Adjusted): the per-game        *)
(* matchup pipeline _matchups with its time_limit alarm, the possession    *)
(* estimate _possessions, the margin computation _margins, the outcome     *)
(* labelling _matchup_performances, the lineup encoding _one_hot_player    *)
(* and the rating re-attachment of fit_regression.                         *)
(*                                                                         *)
(* Numbers the code holds as Python/numpy floats are modelled as exact     *)
(* rationals [k |-> "num", n, d] (d > 0, lowest terms) extended with the   *)
(* IEEE values the code can produce: [k |-> "nan"] and [k |-> "inf"] with  *)
(* sign n.                                                                 *)
(***************************************************************************)
EXTENDS Integers, Sequences, FiniteSets, TLC

\* ------------------------------------------------------------------ bounds
\* largest count of a shooting / rebound stat in an enumerated stat vector
MaxStat == 1
\* largest count of free throw attempts / turnovers in an enumerated vector
MaxFree == 1
\* most games in a season's raw matchup table
MaxGames == 2
\* most raw substitution windows of one game
MaxWindows == 2
\* most alarm firings the model follows in one season
MaxAlarms == 1
\* most rows of the matchup table handed to fit_regression
MaxRows == 3

\* ------------------------------------------------------- program constants
\* _one_hot_player(..., threshold=388)
Threshold == 388
\* lineup_apm = sum of the "_apm" columns / 5; five players a side
LineupSize == 5
\* alpha of Ridge(alpha=1.0), line 65
Alpha == 1

VARIABLES
    \* --- _possessions called on one record (specification SpecPoss)
    matchup,        \* the record: a function from (some) stat fields to counts
    poss_out,       \* what the two calls did: side -> [raised, val] (or empty)
    \* --- the season loop of _matchups (specification Spec)
    raw,            \* self.matchups: the raw substitution windows, in file order
    pbp,            \* self.pbp: the play-by-play events
    pc,             \* position inside _matchups
    gi,             \* index into gameids of the game being processed
    alarm,          \* "off" | "armed" | "spent" (signal.alarm is one-shot)
    game_matchups,  \* the working table of the current game
    matchups,       \* the season-wide table being built
    fired,          \* history: game -> how the alarm fired while it was processed
    entered,        \* history: games whose processing was started
    \* --- fit_regression (specification SpecRidge)
    rpc,            \* position inside prep_data / fit_regression / train
    table,          \* self.matchups in prep_data, fit_regression and train
    player_params,  \* dict(zip(self.player_names, clf.coef_))
    matchups_ridge, \* the list of dicts, then the rated table
    split           \* train(): the label column and the two partitions

vars == <<matchup, poss_out, raw, pbp, pc, gi, alarm, game_matchups, matchups,
          fired, entered, rpc, table, player_params, matchups_ridge, split>>

possVars == <<matchup, poss_out>>
loopVars == <<raw, pbp, pc, gi, alarm, game_matchups, matchups, fired, entered>>
ridgeVars == <<rpc, table, player_params, matchups_ridge, split>>

\* ------------------------------------------------------------- arithmetic
Abs(x) == IF x < 0 THEN -x ELSE x

RECURSIVE Gcd(_, _)
Gcd(a, b) == IF b = 0 THEN a ELSE Gcd(b, a % b)

\* the rational n/d (d # 0) in lowest terms with a positive denominator
Num(n, d) ==
    LET g == Gcd(Abs(n), Abs(d))
        s == IF d < 0 THEN -1 ELSE 1
    IN  [k |-> "num", n |-> (s * n) \div g, d |-> (s * d) \div g]

Zero == [k |-> "num", n |-> 0, d |-> 1]
NaN == [k |-> "nan", n |-> 0, d |-> 1]
Inf(s) == [k |-> "inf", n |-> s, d |-> 1]

IsFinite(x) == x.k = "num"
IsZero(x) == x.k = "num" /\ x.n = 0
IsPos(x) == (x.k = "num" /\ x.n > 0) \/ (x.k = "inf" /\ x.n > 0)
IsNeg(x) == (x.k = "num" /\ x.n < 0) \/ (x.k = "inf" /\ x.n < 0)

\* x + y on finite values
Add(x, y) == Num(x.n * y.d + y.n * x.d, x.d * y.d)

\* sum of a sequence of finite values (pandas Series.sum())
RECURSIVE SumSeq(_)
SumSeq(s) == IF s = <<>> THEN Zero ELSE Add(Head(s), SumSeq(Tail(s)))

\* x / y as numpy divides two scalars: a zero divisor gives nan or +-inf
\* (a RuntimeWarning), never an exception
NpDiv(x, y) ==
    IF y.n = 0
    THEN IF x.n = 0 THEN NaN ELSE Inf(IF x.n > 0 THEN 1 ELSE -1)
    ELSE Num(x.n * y.d, x.d * y.n)

\* x - y with IEEE rules for nan and inf
FSub(x, y) ==
    IF x.k = "nan" \/ y.k = "nan" THEN NaN
    ELSE IF x.k = "inf" /\ y.k = "inf"
         THEN IF x.n = y.n THEN NaN ELSE x
    ELSE IF x.k = "inf" THEN x
    ELSE IF y.k = "inf" THEN Inf(-y.n)
    ELSE Num(x.n * y.d - y.n * x.d, x.d * y.d)

\* 100 * x
Times100(x) == IF x.k = "num" THEN Num(100 * x.n, x.d) ELSE x

\* ------------------------------------------------------------ stat fields
Sides == {"home", "visitor"}
Other(side) == IF side = "home" THEN "visitor" ELSE "home"

StatFields ==
    {"fga_home", "fgm_home", "fta_home", "oreb_home", "dreb_home", "to_home",
     "fga_visitor", "fgm_visitor", "fta_visitor", "oreb_visitor", "dreb_visitor",
     "to_visitor"}

F(stat, side) ==
    IF side = "home"
    THEN CASE stat = "fga" -> "fga_home" [] stat = "fgm" -> "fgm_home"
           [] stat = "fta" -> "fta_home" [] stat = "oreb" -> "oreb_home"
           [] stat = "dreb" -> "dreb_home" [] stat = "to" -> "to_home"
           [] stat = "pts" -> "pts_home"
    ELSE CASE stat = "fga" -> "fga_visitor" [] stat = "fgm" -> "fgm_visitor"
           [] stat = "fta" -> "fta_visitor" [] stat = "oreb" -> "oreb_visitor"
           [] stat = "dreb" -> "dreb_visitor" [] stat = "to" -> "to_visitor"
           [] stat = "pts" -> "pts_visitor"

\* -------------------------------------------------------------- _possessions
\* One parenthesised half of the formula for side s against opponent o, as the
\* Python expression evaluates it on the row's values: [exc, val]. The row of
\* iterrows() holds the player names too, so it is an object Series and its
\* counts are Python numbers: dividing by a zero sum raises ZeroDivisionError.
\*   fga_s + 0.4*fta_s - 1.07*(oreb_s/(oreb_s+dreb_o))*(fga_s-fgm_s) + to_s
PossTerm(m, s) ==
    LET o == Other(s)
        \* read before the division of line 183: fga_s, fta_s, oreb_s, dreb_o
        early == {F("fga", s), F("fta", s), F("oreb", s), F("dreb", o)}
        \* read after it: fgm_s (line 184), to_s (line 185)
        late == {F("fgm", s), F("to", s)}
    IN  IF ~(early \subseteq DOMAIN m)
        THEN [exc |-> "KeyError", val |-> Zero]
        ELSE LET dn == m[F("oreb", s)] + m[F("dreb", o)]
             IN  IF dn = 0
                 THEN [exc |-> "ZeroDivisionError", val |-> Zero]
                 ELSE IF ~(late \subseteq DOMAIN m)
                 THEN [exc |-> "KeyError", val |-> Zero]
                 ELSE [exc |-> "none",
                       val |-> Num(  100 * dn * m[F("fga", s)]
                                   + 40 * dn * m[F("fta", s)]
                                   - 107 * m[F("oreb", s)]
                                         * (m[F("fga", s)] - m[F("fgm", s)])
                                   + 100 * dn * m[F("to", s)],
                                   100 * dn)]

\* The body of the try block (lines 178-213): 0.5 * (own half + other half);
\* the first exception met while evaluating left to right ends it.
PossTry(m, possession_type) ==
    LET a == PossTerm(m, possession_type)
        b == PossTerm(m, Other(possession_type))
    IN  IF a.exc # "none" THEN a
        ELSE IF b.exc # "none" THEN b
        ELSE [exc |-> "none",
              val |-> LET t == Add(a.val, b.val) IN Num(t.n, 2 * t.d)]

\* A plausible slip: only the missing-field error is caught.
PossessionsCatchKeyErrorOnly(m, possession_type) ==
    LET r == PossTry(m, possession_type)
    IN  IF r.exc = "none" THEN [raised |-> FALSE, val |-> r.val]
        ELSE IF r.exc = "KeyError" THEN [raised |-> FALSE, val |-> Zero]
        ELSE [raised |-> TRUE, val |-> Zero]

\* A plausible slip: the free-throw term subtracted instead of added.
PossessionsFtaSign(m, possession_type) ==
    LET r == PossTry(m, possession_type)
        fta == IF r.exc = "none"
               THEN m["fta_home"] + m["fta_visitor"] ELSE 0
    IN  IF r.exc = "none"
        THEN [raised |-> FALSE, val |-> Add(r.val, Num(-4 * fta, 10))]
        ELSE [raised |-> FALSE, val |-> Zero]

\* _possessions(matchup, possession_type): `possessions = 0`, then the try
\* block; `except Exception: return possessions` gives back the initial 0.
\* raised tells whether an exception leaves the call.
_possessions(m, possession_type) ==
    LET r == PossTry(m, possession_type)
    IN  IF r.exc = "none" THEN [raised |-> FALSE, val |-> r.val]
        ELSE [raised |-> FALSE, val |-> Zero]

\* ------------------------------------------- SpecPoss: _possessions alone
\* stat vectors of non-negative counts with FGM <= FGA on each side
FullVectors ==
    {m \in [StatFields -> 0..MaxStat] :
        /\ m["fgm_home"] <= m["fga_home"]
        /\ m["fgm_visitor"] <= m["fga_visitor"]
        /\ m["fta_home"] <= MaxFree /\ m["fta_visitor"] <= MaxFree
        /\ m["to_home"] <= MaxFree /\ m["to_visitor"] <= MaxFree}

Restrict(m, S) == [f \in S |-> m[f]]

\* records that lack one required stat field
DroppedVectors ==
    {Restrict(m, StatFields \ {f}) : m \in [StatFields -> {0, 1}], f \in StatFields}

NoCalls == [s \in {} |-> 0]

InitPoss ==
    /\ matchup \in FullVectors \cup DroppedVectors
    /\ poss_out = NoCalls
    /\ raw = <<>> /\ pbp = {} /\ pc = "idle" /\ gi = 0 /\ alarm = "off"
    /\ game_matchups = <<>> /\ matchups = <<>>
    /\ fired = <<>> /\ entered = {}
    /\ rpc = "idle" /\ table = <<>> /\ player_params = <<>>
    /\ matchups_ridge = <<>> /\ split = <<>>

\* line 147: self._possessions(matchup=matchup, possession_type='home')
EstimateHome ==
    /\ pc = "idle" /\ rpc = "idle"
    /\ "home" \notin DOMAIN poss_out
    /\ poss_out' = [s \in DOMAIN poss_out \cup {"home"} |->
                        IF s = "home" THEN _possessions(matchup, "home")
                        ELSE poss_out[s]]
    /\ UNCHANGED <<matchup, loopVars, ridgeVars>>

\* line 148: self._possessions(matchup=matchup, possession_type='visitor')
EstimateVisitor ==
    /\ pc = "idle" /\ rpc = "idle"
    /\ "visitor" \notin DOMAIN poss_out
    /\ poss_out' = [s \in DOMAIN poss_out \cup {"visitor"} |->
                        IF s = "visitor" THEN _possessions(matchup, "visitor")
                        ELSE poss_out[s]]
    /\ UNCHANGED <<matchup, loopVars, ridgeVars>>

NextPoss == EstimateHome \/ EstimateVisitor

SpecPoss == InitPoss /\ [][NextPoss]_vars

\* ---- claims about _possessions (checked under SpecPoss)
AllFields(m) == StatFields \subseteq DOMAIN m

\* a rebound denominator of the formula is zero
ZeroDenominator(m) ==
    /\ AllFields(m)
    /\ \/ m["oreb_home"] + m["dreb_visitor"] = 0
       \/ m["oreb_visitor"] + m["dreb_home"] = 0

\* C5: whenever a rebound denominator is zero or a required stat field is
\* absent from the record, the home call and the visitor call both return
\* exactly 0 and no exception leaves the call.
C5_ZeroOnBadInput ==
    \A s \in DOMAIN poss_out :
        (ZeroDenominator(matchup) \/ ~AllFields(matchup))
            => (~poss_out[s].raised /\ poss_out[s].val = Zero)

\* C5 witness: both calls made on a record with shots taken and turnovers
\* whose home rebound denominator is zero (the other one is not), both
\* returning 0.
C5_Witness ==
    /\ DOMAIN poss_out = Sides
    /\ AllFields(matchup)
    /\ matchup["oreb_home"] + matchup["dreb_visitor"] = 0
    /\ matchup["oreb_visitor"] + matchup["dreb_home"] > 0
    /\ matchup["fga_home"] > 0 /\ matchup["to_visitor"] > 0
    /\ poss_out["home"].val = Zero /\ poss_out["visitor"].val = Zero

PositiveDenominators(m) ==
    /\ AllFields(m)
    /\ m["oreb_home"] + m["dreb_visitor"] > 0
    /\ m["oreb_visitor"] + m["dreb_home"] > 0

\* C6 as claimed: for all vectors of non-negative counts with FGM <= FGA and
\* both rebound denominators positive, both estimates are non-negative.
C6_Original ==
    \A s \in DOMAIN poss_out :
        PositiveDenominators(matchup) => ~IsNeg(poss_out[s].val)

\* each side's offensive-rebound share is below 100/107
ShareBelow(m) ==
    /\ 7 * m["oreb_home"] < 100 * m["dreb_visitor"]
    /\ 7 * m["oreb_visitor"] < 100 * m["dreb_home"]

\* C6 amended: for such vectors in which, on each side, 7*OREB_S < 100*DREB_O
\* (so that 1.07 * OREB_S/(OREB_S+DREB_O) < 1), both estimates are
\* non-negative.
C6_NonNegative ==
    \A s \in DOMAIN poss_out :
        (PositiveDenominators(matchup) /\ ShareBelow(matchup))
            => ~IsNeg(poss_out[s].val)

\* C6 witness: both estimates made on a vector with missed shots and offensive
\* rebounds on both sides, inside the amended precondition.
C6_Witness ==
    /\ DOMAIN poss_out = Sides
    /\ PositiveDenominators(matchup) /\ ShareBelow(matchup)
    /\ matchup["oreb_home"] > 0 /\ matchup["oreb_visitor"] > 0
    /\ matchup["fga_home"] > matchup["fgm_home"]
    /\ matchup["fga_visitor"] > matchup["fgm_visitor"]
    /\ IsPos(poss_out["home"].val) /\ poss_out["home"] = poss_out["visitor"]

\* ====================================================== the season's inputs
\* _player_info(year): player -> minutes played (MP)
player_info ==
    [p \in {"p1", "p2", "p3", "p4", "p5", "p6", "p7", "p8", "p9", "p10",
            "p11", "p12"} |->
        CASE p = "p11" -> Threshold
          [] p = "p12" -> Threshold - 1
          [] OTHER -> Threshold + 100]

\* data_config['home_team'] / data_config['away_team'] name five columns each;
\* a lineup is the five values of a row in those columns, in column order
LineupA == [home |-> <<"p1", "p2", "p3", "p4", "p5">>,
            visitor |-> <<"p6", "p7", "p8", "p9", "p10">>]
LineupB == [home |-> <<"p6", "p7", "p8", "p9", "p11">>,
            visitor |-> <<"p1", "p2", "p3", "p4", "p5">>]
LineupC == [home |-> <<"p1", "p2", "p3", "p4", "p12">>,
            visitor |-> <<"p6", "p7", "p8", "p9", "p10">>]

RawFields == StatFields \cup {"pts_home", "pts_visitor"}

Stats(ph, fgah, fgmh, ftah, orh, drh, toh, pv, fgav, fgmv, ftav, orv, drv, tov) ==
    [f \in RawFields |->
        CASE f = "pts_home" -> ph [] f = "fga_home" -> fgah
          [] f = "fgm_home" -> fgmh [] f = "fta_home" -> ftah
          [] f = "oreb_home" -> orh [] f = "dreb_home" -> drh
          [] f = "to_home" -> toh
          [] f = "pts_visitor" -> pv [] f = "fga_visitor" -> fgav
          [] f = "fgm_visitor" -> fgmv [] f = "fta_visitor" -> ftav
          [] f = "oreb_visitor" -> orv [] f = "dreb_visitor" -> drv
          [] f = "to_visitor" -> tov]

\* the raw substitution windows a game is drawn from: time window, lineup and
\* the stat columns the raw file holds for the row (when it holds any)
WindowKinds ==
    { [starting_min |-> 0, end_min |-> 1, lineup |-> LineupA,
       stats |-> Stats(2, 2, 1, 0, 1, 0, 0,   0, 1, 0, 0, 1, 1, 1)],
      [starting_min |-> 2, end_min |-> 3, lineup |-> LineupB,
       stats |-> Stats(2, 1, 1, 0, 0, 0, 0,   2, 1, 1, 0, 0, 0, 0)],
      [starting_min |-> 4, end_min |-> 5, lineup |-> LineupA,
       stats |-> Stats(0, 0, 0, 0, 0, 0, 0,   0, 0, 0, 0, 0, 0, 0)],
      [starting_min |-> 0, end_min |-> 3, lineup |-> LineupC,
       stats |-> Stats(3, 3, 1, 2, 1, 2, 1,   4, 3, 2, 0, 1, 1, 0)] }

\* play-by-play rows of game g: minute, home flag and box-score increments
Event(g, minute, home, pts, fga, fgm, fta, oreb, dreb, to) ==
    [game |-> g, minute |-> minute, home |-> home, pts |-> pts, fga |-> fga,
     fgm |-> fgm, fta |-> fta, oreb |-> oreb, dreb |-> dreb, to |-> to]

GameEvents(g) ==
    IF g % 2 = 1
    THEN { Event(g, 0, TRUE, 2, 2, 1, 0, 1, 0, 0),
           Event(g, 1, FALSE, 0, 1, 0, 0, 1, 1, 1),
           Event(g, 2, TRUE, 2, 1, 1, 0, 0, 0, 0),
           Event(g, 3, FALSE, 2, 1, 1, 0, 0, 0, 0) }
    ELSE { Event(g, 0, FALSE, 3, 1, 1, 0, 0, 1, 0),
           Event(g, 1, TRUE, 0, 2, 0, 2, 1, 0, 1),
           Event(g, 3, TRUE, 1, 0, 0, 2, 0, 1, 0),
           Event(g, 3, FALSE, 0, 1, 0, 0, 1, 0, 0) }

\* a game: 1..MaxWindows windows; a season: 1..MaxGames games
GameShapes == UNION {[1..n -> WindowKinds] : n \in 1..MaxWindows}
SeasonShapes == UNION {[1..g -> GameShapes] : g \in 1..MaxGames}

RECURSIVE Flatten(_, _, _)
Flatten(season, ids, g) ==
    IF g > Len(season) THEN <<>>
    ELSE [i \in 1..Len(season[g]) |-> [game |-> ids[g], w |-> season[g][i]]]
         \o Flatten(season, ids, g + 1)

\* the raw matchup file: one row per window, games contiguous (ids names the
\* game of each group), row labels 0, 1, 2, ... in file order (read_csv's
\* RangeIndex)
RawTable(season, ids, has_stats) ==
    LET f == Flatten(season, ids, 1)
    IN  [i \in 1..Len(f) |->
            [label |-> i - 1, game |-> f[i].game,
             starting_min |-> f[i].w.starting_min, end_min |-> f[i].w.end_min,
             home |-> f[i].w.lineup.home, visitor |-> f[i].w.lineup.visitor,
             stats |-> IF has_stats THEN f[i].w.stats
                       ELSE [x \in {} |-> 0]]]

\* ============================================================ the pipeline
With(r, key, v) == [x \in DOMAIN r \cup {key} |-> IF x = key THEN v ELSE r[x]]

RECURSIVE SumOver(_, _)
SumOver(S, field) ==
    IF S = {} THEN 0
    ELSE LET e == CHOOSE x \in S : TRUE
         IN  e[field] + SumOver(S \ {e}, field)

\* _performance_vector(team_pbp, side) of lineup.data.nba.get_matchups: the
\* box-score totals of one side's events
_performance_vector(team_pbp, side) ==
    [f \in {F(st, side) : st \in {"pts", "fga", "fgm", "fta", "oreb", "dreb", "to"}}
        |-> SumOver(team_pbp,
                CASE f = F("pts", side) -> "pts" [] f = F("fga", side) -> "fga"
                  [] f = F("fgm", side) -> "fgm" [] f = F("fta", side) -> "fta"
                  [] f = F("oreb", side) -> "oreb" [] f = F("dreb", side) -> "dreb"
                  [] f = F("to", side) -> "to")]

\* _performance(matchup, pbp): the events with starting_min <= minute <=
\* end_min, totalled per side; empty when the window holds no event
_performance(m, game_pbp) ==
    LET matchup_pbp == {e \in game_pbp :
                            e.minute >= m.starting_min /\ e.minute <= m.end_min}
        h == _performance_vector({e \in matchup_pbp : e.home}, "home")
        v == _performance_vector({e \in matchup_pbp : ~e.home}, "visitor")
    IN  [empty |-> matchup_pbp = {},
         vec |-> [f \in RawFields |-> IF f \in DOMAIN h THEN h[f] ELSE v[f]]]

\* A plausible slip: a tie labelled as a home win ( >= 0 instead of > 0 ).
OutcomeTieAsWin(performance) ==
    IF performance.vec["pts_home"] - performance.vec["pts_visitor"] >= 0
    THEN 1 ELSE -1

\* lines 267-270: the outcome label of a window from its performance vector
Outcome(performance) ==
    IF performance.vec["pts_home"] - performance.vec["pts_visitor"] > 0
    THEN 1 ELSE -1

\* _matchup_performances(matchups, pbp): for each window, in order, its
\* performance; when not empty the window row itself, with the outcome added,
\* is appended (keeping its row label)
RECURSIVE _matchup_performances(_, _)
_matchup_performances(rows, game_pbp) ==
    IF rows = <<>> THEN <<>>
    ELSE LET m == Head(rows)
             performance == _performance(m, game_pbp)
             rest == _matchup_performances(Tail(rows), game_pbp)
         IN  IF ~performance.empty
             THEN <<With(m, "outcome", Outcome(performance))>> \o rest
             ELSE rest

\* lines 146-157: poss_home / poss_visitor of every row; swallowed names the
\* call (row position, side) whose estimate an alarm inside its try block
\* kept from being stored, so that `except Exception` returns the initial 0,
\* or <<0, "none">> when every estimate was stored
WithPossessions(rows, swallowed) ==
    [i \in 1..Len(rows) |->
        LET P(side) == IF swallowed = <<i, side>> THEN Zero
                       ELSE _possessions(rows[i].stats, side).val
        IN  With(With(rows[i], "poss_home", P("home")),
                 "poss_visitor", P("visitor"))]

\* lines 229-241: the margin of one row
MarginOf(m, home_game_avg, away_game_avg) ==
    IF IsZero(m.poss_home) /\ IsZero(m.poss_visitor) THEN NaN
    ELSE LET hv == IF IsPos(m.poss_home)
                   THEN NpDiv(Num(m.stats["pts_home"], 1), m.poss_home)
                   ELSE home_game_avg
             av == IF IsPos(m.poss_visitor)
                   THEN NpDiv(Num(m.stats["pts_visitor"], 1), m.poss_visitor)
                   ELSE away_game_avg
         IN  Times100(FSub(hv, av))

\* _margins(game_matchups): [exc, val]; the game averages divide column sums
\* (numpy scalars); a table without the pts columns raises KeyError
_margins(rows) ==
    IF \E i \in 1..Len(rows) :
            ~({"pts_home", "pts_visitor"} \subseteq DOMAIN rows[i].stats)
    THEN [exc |-> "KeyError", val |-> <<>>]
    ELSE LET pts(side) == Num(SumOver({[id |-> i, v |-> rows[i].stats[F("pts", side)]]
                                          : i \in 1..Len(rows)}, "v"), 1)
             home_game_avg ==
                 NpDiv(pts("home"), SumSeq([i \in 1..Len(rows) |-> rows[i].poss_home]))
             away_game_avg ==
                 NpDiv(pts("visitor"),
                       SumSeq([i \in 1..Len(rows) |-> rows[i].poss_visitor]))
         IN  [exc |-> "none",
              val |-> [i \in 1..Len(rows) |->
                          MarginOf(rows[i], home_game_avg, away_game_avg)]]

\* the qualifying pool: player_info.loc[player_info['MP'] >= threshold]
player_names == {p \in DOMAIN player_info : player_info[p] >= Threshold}

\* the iloc assignments of lines 309-323 in program order: for the row at
\* sequence position k (label ind), its five home players then its five
\* visitor players, each aimed at POSITION ind of the table
RowWrites(m, k) ==
    [j \in 1..(2 * LineupSize) |->
        [k |-> k, j |-> j, pos |-> m.label,
         player |-> IF j <= LineupSize THEN m.home[j] ELSE m.visitor[j - LineupSize],
         v |-> IF j <= LineupSize THEN 1 ELSE -1]]

RECURSIVE AllWrites(_, _)
AllWrites(rows, k) ==
    IF k > Len(rows) THEN <<>>
    ELSE RowWrites(rows[k], k) \o AllWrites(rows, k + 1)

\* one `game_matchups.iloc[ind, columns.get_loc(player)] = v` inside its try:
\* get_loc raises KeyError for a player without a column and iloc raises
\* IndexError for a position past the table's n rows; both are swallowed
ApplyWrite(cols, w, n) ==
    IF w.player \in player_names /\ w.pos < n
    THEN [cols EXCEPT ![w.pos + 1][w.player] = w.v]
    ELSE cols

RECURSIVE ApplyWrites(_, _, _, _)
ApplyWrites(cols, writes, n, swallowed) ==
    IF writes = <<>> THEN cols
    ELSE LET w == Head(writes)
         IN  ApplyWrites(IF swallowed = <<w.k, w.j>> THEN cols
                         ELSE ApplyWrite(cols, w, n),
                         Tail(writes), n, swallowed)

\* _one_hot_player(game_matchups, player_info): one column per pool player,
\* 0 everywhere, then the writes; swallowed names the write (row position,
\* roster slot) that an alarm inside its try block kept from happening, or
\* <<0, 0>> when every write happened
_one_hot_player(rows, swallowed) ==
    LET zero == [i \in 1..Len(rows) |-> [p \in player_names |-> 0]]
        cols == ApplyWrites(zero, AllWrites(rows, 1), Len(rows), swallowed)
    IN  [i \in 1..Len(rows) |-> With(rows[i], "onehot", cols[i])]

\* ==================================================== _matchups, the loop
RECURSIVE Unique(_, _)
Unique(rows, seen) ==
    IF rows = <<>> THEN <<>>
    ELSE IF Head(rows).game \in seen THEN Unique(Tail(rows), seen)
    ELSE <<Head(rows).game>> \o Unique(Tail(rows), seen \cup {Head(rows).game})

\* line 130: self.matchups.loc[:, 'game'].drop_duplicates().values
gameids == Unique(raw, {})

SelectSeq2(rows, g) == SelectSeq(rows, LAMBDA r : r.game = g)

game == gameids[gi]

AlarmsFired == Cardinality({g \in DOMAIN fired : fired[g] # "no"})

InitLoop ==
    /\ \E season \in SeasonShapes, has_stats \in BOOLEAN :
          /\ raw = RawTable(season, [g \in 1..Len(season) |-> g], has_stats)
          /\ pbp = UNION {GameEvents(g) : g \in 1..Len(season)}
          /\ fired = [g \in 1..Len(season) |-> "no"]
    /\ pc = "loop" /\ gi = 0 /\ alarm = "off"
    /\ game_matchups = <<>> /\ matchups = <<>> /\ entered = {}
    /\ matchup = <<>> /\ poss_out = NoCalls
    /\ rpc = "idle" /\ table = <<>> /\ player_params = <<>>
    /\ matchups_ridge = <<>> /\ split = <<>>

\* lines 132-138: the next game; time_limit(30) arms the alarm; the game's
\* windows are selected (never empty: gameids come from the same table)
StartGame ==
    /\ pc = "loop" /\ gi < Len(gameids)
    /\ gi' = gi + 1
    /\ alarm' = "armed"
    /\ game_matchups' = SelectSeq2(raw, gameids[gi + 1])
    /\ entered' = entered \cup {gameids[gi + 1]}
    /\ pc' = "perf"
    /\ UNCHANGED <<raw, pbp, matchups, fired, possVars, ridgeVars>>

\* lines 140-142: the performances; an empty result `continue`s, and leaving
\* the with block cancels the alarm
Performances ==
    /\ pc = "perf"
    /\ LET out == _matchup_performances(game_matchups,
                                        {e \in pbp : e.game = game})
       IN  /\ game_matchups' = out
           /\ pc' = IF out = <<>> THEN "loop" ELSE "poss"
           /\ alarm' = IF out = <<>> THEN "off" ELSE alarm
    /\ UNCHANGED <<raw, pbp, gi, matchups, fired, entered, possVars, ridgeVars>>

\* lines 144-157 with no alarm inside a _possessions try block
Possessions ==
    /\ pc = "poss"
    /\ game_matchups' = WithPossessions(game_matchups, <<0, "none">>)
    /\ pc' = "margin"
    /\ UNCHANGED <<raw, pbp, gi, alarm, matchups, fired, entered, possVars, ridgeVars>>

\* lines 144-157, the alarm going off inside the try block of one
\* _possessions call: TimeoutException is an Exception, `except Exception`
\* swallows it and the game goes on with no alarm left. The call returns the
\* initial 0 when the alarm came before the estimate was stored (sw names the
\* call) and the estimate when it came after the store, still inside the try
\* block (sw = <<0, "none">>)
PossessionsAlarmSwallowed ==
    /\ pc = "poss" /\ alarm = "armed" /\ AlarmsFired < MaxAlarms
    /\ \E sw \in {<<0, "none">>} \cup ((1..Len(game_matchups)) \X Sides) :
          game_matchups' = WithPossessions(game_matchups, sw)
    /\ alarm' = "spent"
    /\ fired' = [fired EXCEPT ![game] = "swallowed"]
    /\ pc' = "margin"
    /\ UNCHANGED <<raw, pbp, gi, matchups, entered, possVars, ridgeVars>>

\* line 160: the margins
Margins ==
    /\ pc = "margin"
    /\ _margins(game_matchups).exc = "none"
    /\ game_matchups' = [i \in 1..Len(game_matchups) |->
            With(game_matchups[i], "margin", _margins(game_matchups).val[i])]
    /\ pc' = "onehot"
    /\ UNCHANGED <<raw, pbp, gi, alarm, matchups, fired, entered, possVars, ridgeVars>>

\* line 160 raising: only TimeoutException is caught at line 166, so the
\* KeyError leaves the with block (alarm cancelled) and _matchups itself
MarginsRaise ==
    /\ pc = "margin"
    /\ _margins(game_matchups).exc # "none"
    /\ pc' = "raised"
    /\ alarm' = "off"
    /\ UNCHANGED <<raw, pbp, gi, game_matchups, matchups, fired, entered,
                   possVars, ridgeVars>>

\* line 162 with no alarm inside a try block of _one_hot_player
OneHot ==
    /\ pc = "onehot"
    /\ game_matchups' = _one_hot_player(game_matchups, <<0, 0>>)
    /\ pc' = "append"
    /\ UNCHANGED <<raw, pbp, gi, alarm, matchups, fired, entered, possVars, ridgeVars>>

\* line 162, the alarm going off inside one try block of _one_hot_player:
\* swallowed by `except Exception: continue`. The write of that block is
\* skipped when the alarm came before the store (sw names the write) and is
\* in the table when it came after the store, while iloc's assignment was
\* still returning (sw = <<0, 0>>)
OneHotAlarmSwallowed ==
    /\ pc = "onehot" /\ alarm = "armed" /\ AlarmsFired < MaxAlarms
    /\ \E sw \in {<<0, 0>>} \cup ((1..Len(game_matchups)) \X (1..(2 * LineupSize))) :
          game_matchups' = _one_hot_player(game_matchups, sw)
    /\ alarm' = "spent"
    /\ fired' = [fired EXCEPT ![game] = "swallowed"]
    /\ pc' = "append"
    /\ UNCHANGED <<raw, pbp, gi, matchups, entered, possVars, ridgeVars>>

\* line 164: matchups = matchups.append(game_matchups)
AppendGame ==
    /\ pc = "append"
    /\ matchups' = matchups \o game_matchups
    /\ pc' = "exit"
    /\ UNCHANGED <<raw, pbp, gi, alarm, game_matchups, fired, entered,
                   possVars, ridgeVars>>

\* leaving the with block: time_limit's finally runs signal.alarm(0)
ExitWith ==
    /\ pc = "exit"
    /\ alarm' = "off"
    /\ game_matchups' = <<>>
    /\ pc' = "loop"
    /\ UNCHANGED <<raw, pbp, gi, matchups, fired, entered, possVars, ridgeVars>>

\* the alarm going off anywhere in the with block outside the inner try
\* blocks: TimeoutException reaches line 166, the game is skipped
Timeout ==
    /\ pc \in {"perf", "poss", "margin", "onehot", "append"}
    /\ alarm = "armed" /\ AlarmsFired < MaxAlarms
    /\ fired' = [fired EXCEPT ![game] = "propagated"]
    /\ alarm' = "off"
    /\ game_matchups' = <<>>
    /\ pc' = "loop"
    /\ UNCHANGED <<raw, pbp, gi, matchups, entered, possVars, ridgeVars>>

\* the alarm going off after line 164 stored the table and before
\* signal.alarm(0): caught at line 166, "skipping" is printed
TimeoutLate ==
    /\ pc = "exit"
    /\ alarm = "armed" /\ AlarmsFired < MaxAlarms
    /\ fired' = [fired EXCEPT ![game] = "late"]
    /\ alarm' = "off"
    /\ game_matchups' = <<>>
    /\ pc' = "loop"
    /\ UNCHANGED <<raw, pbp, gi, matchups, entered, possVars, ridgeVars>>

\* line 170: return matchups
Return ==
    /\ pc = "loop" /\ gi = Len(gameids)
    /\ pc' = "returned"
    /\ UNCHANGED <<raw, pbp, gi, alarm, game_matchups, matchups, fired, entered,
                   possVars, ridgeVars>>

Next ==
    \/ StartGame \/ Performances \/ Possessions \/ PossessionsAlarmSwallowed
    \/ Margins \/ MarginsRaise \/ OneHot \/ OneHotAlarmSwallowed \/ AppendGame
    \/ ExitWith \/ Timeout \/ TimeoutLate \/ Return

Spec == InitLoop /\ [][Next]_vars

\* ---------------------- SpecPerf: _matchup_performances on a single game
InitPerf ==
    /\ \E windows \in GameShapes, g \in 1..MaxGames, has_stats \in BOOLEAN :
          /\ raw = RawTable(<<windows>>, <<g>>, has_stats)
          /\ pbp = GameEvents(g)
          /\ fired = [x \in {g} |-> "no"]
    /\ pc = "loop" /\ gi = 0 /\ alarm = "off"
    /\ game_matchups = <<>> /\ matchups = <<>> /\ entered = {}
    /\ matchup = <<>> /\ poss_out = NoCalls
    /\ rpc = "idle" /\ table = <<>> /\ player_params = <<>>
    /\ matchups_ridge = <<>> /\ split = <<>>

NextPerf == StartGame \/ Performances

SpecPerf == InitPerf /\ [][NextPerf]_vars

\* ---- claims about the season loop
RowsOf(t, g) == SelectSeq(t, LAMBDA r : r.game = g)
EventsOf(g) == {e \in pbp : e.game = g}

\* C1: a game during whose processing the alarm went off contributes no row
\* to the season table, and the loop still goes through every game before it
\* returns.
C1_TimeoutDropsGame ==
    /\ \A g \in DOMAIN fired :
          fired[g] \in {"propagated", "swallowed"} => RowsOf(matchups, g) = <<>>
    /\ pc = "returned" => entered = {gameids[i] : i \in 1..Len(gameids)}

\* C2: a failure of a per-game step never leaves the season loop: the loop is
\* never ended by an exception, and when it ends every game was taken up.
C2_FailureIsolated ==
    /\ pc # "raised"
    /\ pc = "returned" => entered = {gameids[i] : i \in 1..Len(gameids)}

TenDistinctPoolPlayers(r) ==
    LET ten == {r.home[j] : j \in 1..LineupSize} \cup {r.visitor[j] : j \in 1..LineupSize}
    IN  Cardinality(ten) = 2 * LineupSize /\ ten \subseteq player_names

\* C3: every emitted record (of a game the alarm left alone) whose ten players
\* are distinct pool members has +1 in exactly its five home players' columns,
\* -1 in exactly its five visitor players' columns and 0 elsewhere.
C3_SignedIndicators ==
    \A i \in 1..Len(matchups) :
        LET r == matchups[i]
        IN  (fired[r.game] = "no" /\ TenDistinctPoolPlayers(r))
            => \A p \in player_names :
                  r.onehot[p] =
                      IF \E j \in 1..LineupSize : r.home[j] = p THEN 1
                      ELSE IF \E j \in 1..LineupSize : r.visitor[j] = p THEN -1
                      ELSE 0

\* C4: an emitted record's margin is NaN exactly when both possession counts
\* are 0; otherwise it is finite, and with possessions on both sides it is
\* 100 * (pts_home/poss_home - pts_visitor/poss_visitor).
C4_MarginNaNOnlyBothZero ==
    \A i \in 1..Len(matchups) :
        LET r == matchups[i]
            both == IsZero(r.poss_home) /\ IsZero(r.poss_visitor)
        IN  /\ (r.margin = NaN) <=> both
            /\ ~both => IsFinite(r.margin)
            /\ (IsPos(r.poss_home) /\ IsPos(r.poss_visitor))
                  => r.margin =
                        Times100(FSub(NpDiv(Num(r.stats["pts_home"], 1), r.poss_home),
                                      NpDiv(Num(r.stats["pts_visitor"], 1),
                                            r.poss_visitor)))

\* what the window's own events give
Aggregated(r) == _performance(r, EventsOf(r.game)).vec

\* C10: every emitted record (of a game the alarm left alone) carries the
\* totals aggregated from the game's events inside its own window, and its
\* possession counts are those of these totals.
C10_RecordCarriesAggregates ==
    \A i \in 1..Len(matchups) :
        LET r == matchups[i]
        IN  fired[r.game] = "no"
            => /\ r.stats = Aggregated(r)
               /\ r.poss_home = _possessions(Aggregated(r), "home").val
               /\ r.poss_visitor = _possessions(Aggregated(r), "visitor").val

\* C7: once _matchup_performances has run on a game, every window of the game
\* whose performance is not empty has exactly one record, labelled +1 when
\* home points - visitor points > 0 over the window and -1 otherwise (a tie
\* too), and a window whose performance is empty has none.
C7_OutcomeLabels ==
    (gi >= 1 /\ pc # "perf") =>
        LET windows == SelectSeq2(raw, game)
        IN  /\ \A k \in 1..Len(windows) :
                  LET w == windows[k]
                      perf == _performance(w, EventsOf(game))
                      recs == {i \in 1..Len(game_matchups) :
                                    game_matchups[i].label = w.label}
                  IN  IF perf.empty THEN recs = {}
                      ELSE /\ Cardinality(recs) = 1
                           /\ \A i \in recs :
                                 game_matchups[i].outcome =
                                     IF perf.vec["pts_home"] - perf.vec["pts_visitor"] > 0
                                     THEN 1 ELSE -1
            /\ \A i \in 1..Len(game_matchups) :
                  /\ "outcome" \in DOMAIN game_matchups[i]
                  /\ game_matchups[i].outcome \in {1, -1}

\* C7 witness: a two-window game after _matchup_performances in which one
\* window was dropped for an empty performance and the other, a tie, is
\* labelled -1.
C7_Witness ==
    /\ gi = 1 /\ pc = "poss"
    /\ Len(SelectSeq2(raw, game)) = 2
    /\ Len(game_matchups) = 1
    /\ Aggregated(game_matchups[1])["pts_home"] > 0
    /\ Aggregated(game_matchups[1])["pts_home"]
          = Aggregated(game_matchups[1])["pts_visitor"]
    /\ game_matchups[1].outcome = -1

\* ========================================================== fit_regression
\* data_config['players']: the player columns re-attached to every row, the
\* five home slots then the five visitor slots; column <<side, j>> holds the
\* j-th player of that side
players ==
    [c \in 1..(2 * LineupSize) |->
        IF c <= LineupSize THEN <<"home", c>> ELSE <<"visitor", c - LineupSize>>]

\* data_config['players_apm']: the "_apm" columns of the five home slots
\* (named here by the player column they belong to)
players_apm == {<<"home", j>> : j \in 1..LineupSize}

\* matchup[player_col]
Cell(row, col) == IF col[1] = "home" THEN row.home[col[2]] ELSE row.visitor[col[2]]

\* lines 74-83: the dict of one row. For each configured column the player is
\* stored, then its rating; a player without a rating raises KeyError after
\* the first store, and `except Exception: continue` leaves the "_apm" key out
MatchupRidge(row, params) ==
    [cols |-> [c \in {players[i] : i \in 1..Len(players)} |-> Cell(row, c)],
     apm |-> [c \in {players[i] : i \in 1..Len(players)} \cap
                    {c2 \in {players[i] : i \in 1..Len(players)} :
                          Cell(row, c2) \in DOMAIN params}
                |-> params[Cell(row, c)]],
     outcome |-> row.outcome]

\* the columns DataFrame.from_records builds: the union of the dicts' keys
ApmColumns(dicts) == UNION {DOMAIN dicts[i].apm : i \in 1..Len(dicts)}

RECURSIVE SumApm(_, _)
SumApm(d, cols) ==
    IF cols = {} THEN Zero
    ELSE LET c == CHOOSE x \in cols : TRUE
         IN  Add(d.apm[c], SumApm(d, cols \ {c}))

\* A plausible slip: the sum taken over every re-attached "_apm" column.
LineupApmAllPlayers(d) ==
    NpDiv(SumApm(d, DOMAIN d.apm), Num(LineupSize, 1))

\* lines 87-88: the row sum of the players_apm columns (sum(axis=1) skips the
\* NaN of a missing entry), divided by 5
LineupApm(d) ==
    NpDiv(SumApm(d, players_apm \cap DOMAIN d.apm), Num(LineupSize, 1))

\* the windows of a one-game season as _matchup_performances and _margins
\* leave them, with the columns fit_regression reads; the margin of the fourth
\* is NaN (both possession counts 0) and that of the last is +inf (one
\* possession count 0)
RidgeRowKinds ==
    { [home |-> LineupA.home, visitor |-> LineupA.visitor, outcome |-> 1,
       margin |-> Num(3, 2)],
      [home |-> LineupB.home, visitor |-> LineupB.visitor, outcome |-> -1,
       margin |-> Num(-5, 1)],
      [home |-> LineupC.home, visitor |-> LineupC.visitor, outcome |-> 1,
       margin |-> Num(1, 4)],
      [home |-> LineupA.home, visitor |-> LineupA.visitor, outcome |-> -1,
       margin |-> NaN],
      [home |-> LineupB.home, visitor |-> LineupB.visitor, outcome |-> 1,
       margin |-> Inf(1)] }

\* line 59: self.matchups.dropna()
DropNa(rows) == SelectSeq(rows, LAMBDA r : r.margin # NaN)

\* lines 49-50: to_csv(index=False) then read_csv: the same rows, labelled
\* 0, 1, 2, ... again
Relabel(rows) == [i \in 1..Len(rows) |-> With(rows[i], "label", i - 1)]

\* ---- Ridge(alpha=1.0).fit(X, Y), lines 65-66, in exact arithmetic
\* sum of f over the set S
RECURSIVE SumInt(_, _)
SumInt(f, S) ==
    IF S = {} THEN 0
    ELSE LET x == CHOOSE e \in S : TRUE
         IN  f[x] + SumInt(f, S \ {x})

RemoveAt(s, j) == SubSeq(s, 1, j - 1) \o SubSeq(s, j + 1, Len(s))

\* determinant of the rows rs and columns cs of M, expanded along the first row
RECURSIVE Det(_, _, _)
Det(M, rs, cs) ==
    IF rs = <<>> THEN 1
    ELSE SumInt([j \in 1..Len(cs) |->
                    (IF j % 2 = 1 THEN 1 ELSE -1) * M[Head(rs)][cs[j]]
                        * Det(M, Tail(rs), RemoveAt(cs, j))],
                1..Len(cs))

Lcm(a, b) == (a * b) \div Gcd(a, b)

\* least common denominator of a sequence of finite values
RECURSIVE LcmDen(_)
LcmDen(ys) == IF ys = <<>> THEN 1 ELSE Lcm(Head(ys).d, LcmDen(Tail(ys)))

\* the coefficients of Ridge(alpha=1.0) with its default intercept: X and Y
\* are centred on their column means and w = Xc' (Xc Xc' + alpha I)^-1 yc.
\* With n rows, Z = n Xc, M = Z Z' + alpha n^2 I and u = n yc this is
\* w = Z' adj(M) u / det(M), all in integers over the common denominator D
\* of the margins. X is a sequence of one-hot rows, Y of finite margins.
RidgeCoef(X, Y) ==
    LET n == Len(X)
        rows == 1..n
        idx == [i \in rows |-> i]
        colsum == [p \in player_names |-> SumInt([i \in rows |-> X[i][p]], rows)]
        Z == [i \in rows |-> [p \in player_names |-> n * X[i][p] - colsum[p]]]
        M == [i \in rows |-> [j \in rows |->
                SumInt([p \in player_names |-> Z[i][p] * Z[j][p]], player_names)
                + (IF i = j THEN Alpha * n * n ELSE 0)]]
        D == LcmDen(Y)
        Yi == [i \in rows |-> Y[i].n * (D \div Y[i].d)]
        U == [i \in rows |-> n * Yi[i] - SumInt(Yi, rows)]
        cof == [i \in rows |-> [j \in rows |->
                (IF (i + j) % 2 = 0 THEN 1 ELSE -1)
                    * Det(M, RemoveAt(idx, i), RemoveAt(idx, j))]]
        v == [i \in rows |-> SumInt([j \in rows |-> cof[j][i] * U[j]], rows)]
    IN  [p \in player_names |->
            Num(SumInt([i \in rows |-> Z[i][p] * v[i]], rows), D * Det(M, idx, idx))]

\* prep_data after line 48, for a season of one game: the table _matchups
\* returned keeps the labels of the raw file (first = 0, or first = 1 when
\* the raw window 0 held no event and was dropped), and its one-hot columns
\* are the ones _one_hot_player wrote with those labels
InitRidge ==
    /\ \E t \in UNION {[1..n -> RidgeRowKinds] : n \in 1..MaxRows},
          first \in {0, 1} :
          table = _one_hot_player(
                      [i \in 1..Len(t) |-> With(t[i], "label", first + i - 1)],
                      <<0, 0>>)
    /\ rpc = "returned"
    /\ player_params = <<>> /\ matchups_ridge = <<>> /\ split = <<>>
    /\ matchup = <<>> /\ poss_out = NoCalls
    /\ raw = <<>> /\ pbp = {} /\ pc = "idle" /\ gi = 0 /\ alarm = "off"
    /\ game_matchups = <<>> /\ matchups = <<>>
    /\ fired = <<>> /\ entered = {}

\* prep_data lines 49-50: the table written out and read back
ReadBack ==
    /\ rpc = "returned"
    /\ table' = Relabel(table)
    /\ rpc' = "start"
    /\ UNCHANGED <<player_params, matchups_ridge, split, possVars, loopVars>>

\* lines 59-69: dropna, then the ridge fit of the margin on the one-hot
\* columns gives every pool player its coefficient
RidgeFit ==
    /\ rpc = "start"
    /\ DropNa(table) # <<>>
    /\ \A i \in 1..Len(DropNa(table)) : IsFinite(DropNa(table)[i].margin)
    /\ table' = DropNa(table)
    /\ player_params' =
          RidgeCoef([i \in 1..Len(DropNa(table)) |-> DropNa(table)[i].onehot],
                    [i \in 1..Len(DropNa(table)) |-> DropNa(table)[i].margin])
    /\ rpc' = "fitted"
    /\ UNCHANGED <<matchups_ridge, split, possVars, loopVars>>

\* lines 59-66 when dropna leaves no row: Ridge.fit refuses an empty sample
\* (ValueError), which leaves fit_regression
RidgeFitNoRows ==
    /\ rpc = "start"
    /\ DropNa(table) = <<>>
    /\ table' = DropNa(table)
    /\ rpc' = "fit_raised"
    /\ UNCHANGED <<player_params, matchups_ridge, split, possVars, loopVars>>

\* lines 59-66 when a kept row has an infinite margin (dropna removes NaN
\* only): Ridge.fit refuses a non-finite target (ValueError), which leaves
\* fit_regression
RidgeFitInfinite ==
    /\ rpc = "start"
    /\ \E i \in 1..Len(DropNa(table)) : ~IsFinite(DropNa(table)[i].margin)
    /\ table' = DropNa(table)
    /\ rpc' = "fit_raised"
    /\ UNCHANGED <<player_params, matchups_ridge, split, possVars, loopVars>>

\* lines 73-84: one dict per row
Reattach ==
    /\ rpc = "fitted"
    /\ matchups_ridge' = [i \in 1..Len(table) |-> MatchupRidge(table[i], player_params)]
    /\ rpc' = "records"
    /\ UNCHANGED <<table, player_params, split, possVars, loopVars>>

\* lines 86-88 when every players_apm column exists in the frame
RatedTable ==
    /\ rpc = "records"
    /\ players_apm \subseteq ApmColumns(matchups_ridge)
    /\ matchups_ridge' = [i \in 1..Len(matchups_ridge) |->
            With(matchups_ridge[i], "lineup_apm", LineupApm(matchups_ridge[i]))]
    /\ rpc' = "done"
    /\ UNCHANGED <<table, player_params, split, possVars, loopVars>>

\* line 87 when a players_apm column was set in no row: the frame has no such
\* column and selecting the list raises KeyError out of fit_regression
RatedTableKeyError ==
    /\ rpc = "records"
    /\ ~(players_apm \subseteq ApmColumns(matchups_ridge))
    /\ rpc' = "raised"
    /\ UNCHANGED <<table, player_params, matchups_ridge, split, possVars, loopVars>>

\* prep_data lines 52-53: the rated table is written out and becomes
\* self.matchups
AdoptRated ==
    /\ rpc = "done"
    /\ table' = matchups_ridge
    /\ rpc' = "prepped"
    /\ UNCHANGED <<player_params, matchups_ridge, split, possVars, loopVars>>

\* ==================================================================== train
\* a row of the rated frame has a NaN where its dict lacks a key another
\* row's dict has
HasMissing(rows, i) == DOMAIN rows[i].apm # ApmColumns(rows)

\* clean(data_config, matchups, 'adjusted') of lineup.model.utils: keeps the
\* rows and the rating columns
clean(rows) == rows

\* lines 94-95: clean, then dropna
CleanDropNa(rows) ==
    LET c == clean(rows)
        keep == {i \in 1..Len(c) : ~HasMissing(c, i)}
    IN  SelectSeq([i \in 1..Len(c) |-> [i |-> i, r |-> c[i]]],
                  LAMBDA x : x.i \in keep)

\* the outcomes of a set of rows, as a count per class
ClassCount(y, S, cls) == Cardinality({i \in S : y[i] = cls})

\* _even_split(x, y) of lineup.data.utils: the subsamples of a partition in
\* which +1 and -1 are equally many and the smaller class is kept whole
_even_split(y, S) ==
    LET k == IF ClassCount(y, S, 1) < ClassCount(y, S, -1)
             THEN ClassCount(y, S, 1) ELSE ClassCount(y, S, -1)
    IN  {T \in SUBSET S : ClassCount(y, T, 1) = k /\ ClassCount(y, T, -1) = k}

\* lines 91-100: the rated table read back, cleaned, rows with a missing value
\* dropped; the outcome column becomes Y and is dropped from self.matchups
TrainLoad ==
    /\ rpc = "prepped"
    /\ LET kept == CleanDropNa(table)
       IN  /\ split' = [Y |-> [i \in 1..Len(kept) |-> kept[i].r.outcome]]
           /\ table' = [i \in 1..Len(kept) |->
                          [k \in DOMAIN kept[i].r \ {"outcome"} |-> kept[i].r[k]]]
    /\ rpc' = "loaded"
    /\ UNCHANGED <<player_params, matchups_ridge, possVars, loopVars>>

\* line 101: train_test_split puts every row in exactly one of two non-empty
\* partitions (which rows: the shuffle has no fixed seed)
TrainSplit ==
    /\ rpc = "loaded"
    /\ Len(table) >= 2
    /\ \E V \in SUBSET (1..Len(table)) :
          /\ V # {} /\ V # 1..Len(table)
          /\ split' = [Y |-> split.Y, train |-> (1..Len(table)) \ V, val |-> V]
    /\ rpc' = "split"
    /\ UNCHANGED <<table, player_params, matchups_ridge, possVars, loopVars>>

\* line 101 with fewer than two rows: train_test_split refuses a split that
\* leaves a partition empty (ValueError), which leaves train
TrainSplitRaise ==
    /\ rpc = "loaded"
    /\ Len(table) < 2
    /\ rpc' = "train_raised"
    /\ UNCHANGED <<table, player_params, matchups_ridge, split, possVars, loopVars>>

\* line 112, self.model.fit(train_x, train_y) of the estimator line 40 picked
\* from model_config: every sklearn estimator refuses an empty sample
\* (ValueError); one that needs two classes (strict) also refuses a training
\* set holding a single class
FitRefused(y, T, strict) ==
    \/ T = {}
    \/ strict /\ Cardinality({y[i] : i \in T}) < 2

\* lines 103-112 with data_config['even_training'] off: the model is fitted
TrainFit ==
    /\ rpc = "split"
    /\ \E strict \in BOOLEAN : ~FitRefused(split.Y, split.train, strict)
    /\ rpc' = "trained"
    /\ UNCHANGED <<table, player_params, matchups_ridge, split, possVars, loopVars>>

\* lines 103-112 with data_config['even_training'] off when the estimator
\* refuses the training partition: ValueError leaves train
TrainFitRaise ==
    /\ rpc = "split"
    /\ \E strict \in BOOLEAN : FitRefused(split.Y, split.train, strict)
    /\ rpc' = "model_raised"
    /\ UNCHANGED <<table, player_params, matchups_ridge, split, possVars, loopVars>>

\* lines 103-112 with data_config['even_training'] on: both partitions are
\* balanced and shuffled, then the model is fitted
TrainFitEven ==
    /\ rpc = "split"
    /\ \E T \in _even_split(split.Y, split.train),
          V \in _even_split(split.Y, split.val), strict \in BOOLEAN :
          /\ ~FitRefused(split.Y, T, strict)
          /\ split' = [Y |-> split.Y, train |-> T, val |-> V]
    /\ rpc' = "trained"
    /\ UNCHANGED <<table, player_params, matchups_ridge, possVars, loopVars>>

\* lines 103-112 with data_config['even_training'] on when the balanced
\* training partition is empty (it held a single class): the partitions are
\* replaced (lines 105-109) and the fit of line 112 raises ValueError out of
\* train
TrainFitEvenRaise ==
    /\ rpc = "split"
    /\ \E T \in _even_split(split.Y, split.train),
          V \in _even_split(split.Y, split.val), strict \in BOOLEAN :
          /\ FitRefused(split.Y, T, strict)
          /\ split' = [Y |-> split.Y, train |-> T, val |-> V]
    /\ rpc' = "model_raised"
    /\ UNCHANGED <<table, player_params, matchups_ridge, possVars, loopVars>>

\* prep_data, fit_regression inside it, then train
NextRidge ==
    \/ ReadBack \/ RidgeFit \/ RidgeFitNoRows \/ RidgeFitInfinite \/ Reattach
    \/ RatedTable \/ RatedTableKeyError \/ AdoptRated
    \/ TrainLoad \/ TrainSplit \/ TrainSplitRaise \/ TrainFit \/ TrainFitRaise
    \/ TrainFitEven \/ TrainFitEvenRaise

SpecRidge == InitRidge /\ [][NextRidge]_vars

\* ---- claims about fit_regression
Rated(p) == p \in DOMAIN player_params

\* C8: whatever rows a configured player column misses in, fit_regression
\* completes (no exception leaves it) and every row of the rated table has a
\* lineup aggregate rating.
C8_NeverAborts ==
    /\ rpc # "raised"
    /\ rpc = "done" => \A i \in 1..Len(matchups_ridge) :
                            "lineup_apm" \in DOMAIN matchups_ridge[i]

RECURSIVE SumRated(_, _)
SumRated(home, j) ==
    IF j > LineupSize THEN Zero
    ELSE Add(IF Rated(home[j]) THEN player_params[home[j]] ELSE Zero,
             SumRated(home, j + 1))

\* C9 as claimed: in every row of the rated table the five home players all
\* have a ridge coefficient and lineup_apm is their mean.
C9_Original ==
    rpc = "done" =>
        \A i \in 1..Len(matchups_ridge) :
            /\ \A j \in 1..LineupSize : Rated(table[i].home[j])
            /\ matchups_ridge[i].lineup_apm = NpDiv(SumRated(table[i].home, 1), Num(LineupSize, 1))

\* C9 amended: in every row of the rated table lineup_apm is the sum of the
\* ridge coefficients of those of the row's five home players that have one
\* (a player without a rating adds nothing), divided by 5; it is the mean of
\* the five coefficients when all five are rated.
C9_LineupApm ==
    rpc = "done" =>
        \A i \in 1..Len(matchups_ridge) :
            matchups_ridge[i].lineup_apm = NpDiv(SumRated(table[i].home, 1), Num(LineupSize, 1))

\* C9 witness: a rated table, with the coefficients the ridge fit gave, that
\* holds a row whose five home players are all rated and a row with an
\* unrated home player, each with a non-zero aggregate.
C9_Witness ==
    /\ rpc = "done"
    /\ \E i \in 1..Len(matchups_ridge) :
          /\ \A j \in 1..LineupSize : Rated(table[i].home[j])
          /\ matchups_ridge[i].lineup_apm # Zero
    /\ \E i \in 1..Len(matchups_ridge) :
          /\ \E j \in 1..LineupSize : ~Rated(table[i].home[j])
          /\ matchups_ridge[i].lineup_apm # Zero

====
